---- MODULE Spec2Model ----
(***************************************************************************)
(* A model of mochawesome-report-generator's lib/src/main.js: option       *)
(* resolution (getFilename, getOptions), the asset freshness check         *)
(* (_shouldCopyAssets, copyAssets), the persistence layer (saveFile,       *)
(* openFile) and the two orchestrators (create, createSync).               *)
(*                                                                         *)
(* Strings are sequences of fragments.  The fragments are drawn from a     *)
(* vocabulary that spells every string in one way only, so two             *)
(* sequences are equal exactly when the strings they spell are equal, and  *)
(* "." is always a fragment of its own, so the extension regex can be      *)
(* computed on the sequence.  JavaScript values of mixed type (the flags,  *)
(* the timestamp option) are records [t |-> type, v |-> value].            *)
(***************************************************************************)
EXTENDS Naturals, Sequences, FiniteSets, TLC

VARIABLES
  fs,       \* the report directory: file name -> content
  assets,   \* the assets directory: [exists, readable, css]
  now,      \* the wall clock, in seconds
  inv,      \* the invocations of create / createSync, by id
  ro,       \* the last reportOptions getOptions returned (option resolution alone)
  sv,       \* a caller that runs saveFile(file, data, false) calls one after another
  ac        \* the last copyAssets call: [called, should, copied]

vars == <<fs, assets, now, inv, ro, sv, ac>>

----------------------------------------------------------------------------
\* Bounds of the model.

\* the clock stops ticking here
MaxNow == 2
\* the longest app.css the asset check is run on, in characters
MaxCssLen == 6
\* how many saveFile calls the sequential caller makes
MaxCalls == 3
\* the highest try number counted among the names a unique save may take
MaxTries == 3

----------------------------------------------------------------------------
\* JavaScript values.

Bool(b) == [t |-> "boolean", v |-> b]
Str(s) == [t |-> "string", v |-> s]
Num(n) == [t |-> "number", v |-> n]
Undef == [t |-> "undefined", v |-> ""]
JsTrue == Bool("true")
JsFalse == Bool("false")

\* ToBoolean: what `if (x)`, `x ? a : b` and `x && y` test
Truthy(x) == x \notin {JsFalse, Undef, Num("0"), Str("")}

\* the literal null of a skipped save, and a destructured field that is absent
Null == <<"<null>">>
NoFile == <<"<undefined>">>

----------------------------------------------------------------------------
\* String helpers.

\* the index of the last "." of s, 0 when there is none
LastDot(s) ==
  LET dots == {i \in 1..Len(s) : s[i] = "."}
  IN IF dots = {} THEN 0 ELSE CHOOSE i \in dots : \A j \in dots : j <= i

\* fileExtRegex = /\.[^.]*?$/ : the match starts at the last "." and runs to the
\* end; 0 when the string holds no "."
fileExtRegex(s) == LastDot(s)

\* s.replace(fileExtRegex, '')
StripExt(s) ==
  IF fileExtRegex(s) = 0 THEN s ELSE SubSeq(s, 1, fileExtRegex(s) - 1)

\* the matched text, $& in a replacement
ExtOf(s) ==
  IF fileExtRegex(s) = 0 THEN <<>> ELSE SubSeq(s, fileExtRegex(s), Len(s))

----------------------------------------------------------------------------
\* Option resolution: getTimestampFormat, getFilename, getOptions.

\* getTimestampFormat: '' , 'true' and true select 'isoDateTime'; any other
\* value is passed through as the format
getTimestampFormat(timestamp) ==
  IF timestamp \in {Str(""), Str("true"), JsTrue}
    THEN Str("isoDateTime")
    ELSE timestamp

\* the seconds field of the clock reading t
Sec(t) == <<"s0", "s1", "s2", "s3", "s4", "s5">>[t + 1]

\* dateFormat(new Date(), format) at clock reading t.  The named masks:
\*   isoDateTime  yyyy-mm-dd'T'HH:MM:sso
\*   (undefined)  the default mask, ddd mmm dd yyyy HH:MM:ss
\*   longDate     mmmm d, yyyy
\*   shortDate    m/d/yy
\* Only the masks with a seconds field depend on t within a run.
dateFormat(t, format) ==
  CASE format = Str("isoDateTime") ->
         <<"D", "T", "HH", ":", "MM", ":", Sec(t), "Z">>
    [] format = Undef ->
         <<"Thu", " ", "Nov", " ", "dd", " ", "yyyy", " ", "HH", ":", "MM", ":", Sec(t)>>
    [] format = Str("longDate") ->
         <<"Nov", " ", "dd", ",", " ", "yyyy">>
    [] format = Str("shortDate") ->
         <<"mm", "/", "dd", "/", "yyyy">>

IsWs(c) == c = " "

RECURSIVE DropWs(_)
DropWs(s) == IF s # <<>> /\ IsWs(Head(s)) THEN DropWs(Tail(s)) ELSE s

\* .replace(/(,\s*)|,|\s+/g, '_') : a comma with the blanks after it, or a run
\* of blanks, becomes one underscore
RECURSIVE ReplaceCommasSpaces(_)
ReplaceCommasSpaces(s) ==
  IF s = <<>> THEN <<>>
  ELSE IF Head(s) = "," \/ IsWs(Head(s))
    THEN <<"_">> \o ReplaceCommasSpaces(DropWs(Tail(s)))
    ELSE <<Head(s)>> \o ReplaceCommasSpaces(Tail(s))

\* .replace(/\\|\//g, '-')
ReplaceSlashes(s) ==
  [i \in 1..Len(s) |-> IF s[i] \in {"/", "\\"} THEN "-" ELSE s[i]]

\* .replace(/:/g, '')
RemoveColons(s) == SelectSeq(s, LAMBDA c : c # ":")

\* the `_${dateFormat(...)}` suffix after the three replacements
Suffix(t, timestamp) ==
  RemoveColons(ReplaceSlashes(ReplaceCommasSpaces(
    <<"_">> \o dateFormat(t, getTimestampFormat(timestamp)))))

cwd == <<"/cwd/">>
IsAbsolute(dir) == dir = <<"/abs/">>

\* path.resolve(process.cwd(), reportDir, filename)
PathResolve(dir, filename) ==
  IF IsAbsolute(dir) THEN dir \o filename ELSE cwd \o dir \o filename

\* getFilename with the clock reading t
getFilename(opts, t) ==
  LET reportFilename ==
        IF opts.reportFilename = NoFile THEN <<"mochawesome">> ELSE opts.reportFilename
      ts == IF opts.timestamp # JsFalse /\ opts.timestamp # Str("false")
              THEN Suffix(t, opts.timestamp)
              ELSE <<>>
      filename == StripExt(reportFilename) \o ts
  IN PathResolve(opts.reportDir, filename)

\* getOptions on the merged options, with the clock reading tJson when the JSON
\* name is built and tHtml when the HTML name is built
getOptions(mergedOptions, tJson, tHtml) ==
  [mergedOptions EXCEPT
     !.jsonFile = IF Truthy(mergedOptions.saveJson)
                    THEN getFilename(mergedOptions, tJson) \o <<".", "json">>
                    ELSE @,
     !.htmlFile = getFilename(mergedOptions, tHtml) \o <<".", "html">>]

\* how far the clock may move between the two new Date() of one getOptions
\* call: the clock is read twice only when saveJson is truthy and a timestamp
\* is asked for
TicksBetween(mergedOptions) ==
  IF /\ Truthy(mergedOptions.saveJson)
     /\ mergedOptions.timestamp # JsFalse
     /\ mergedOptions.timestamp # Str("false")
    THEN 0..1
    ELSE {0}

\* the merged options getMergedOptions hands to getOptions
MergedOptions(dir, name, timestamp, saveJson, saveHtml, autoOpen, overwrite) ==
  [reportDir |-> dir, reportFilename |-> name, timestamp |-> timestamp,
   saveJson |-> saveJson, saveHtml |-> saveHtml, autoOpen |-> autoOpen,
   overwrite |-> overwrite, jsonFile |-> NoFile, htmlFile |-> NoFile]

\* the clock advances by itself
Tick ==
  /\ now < MaxNow
  /\ now' = now + 1
  /\ UNCHANGED <<fs, assets, inv, ro, sv, ac>>

----------------------------------------------------------------------------
\* The asset manager: _shouldCopyAssets, copyAssets.

\* pkg.version, the version of the running package
pkgVersion == <<"1", ".", "2", ".", "1">>

\* dist/app.css carries the package version in its banner
distCss == <<"x">> \o pkgVersion

NoAssets == [exists |-> FALSE, readable |-> FALSE, css |-> <<>>]

IsDigit(c) == c \in {"0", "1", "2", "3", "4", "5", "6", "7", "8", "9"}

\* \d+ at position i of s: the length of the run of digits that starts there
RECURSIVE DigitRun(_, _)
DigitRun(s, i) ==
  IF i <= Len(s) /\ IsDigit(s[i]) THEN 1 + DigitRun(s, i + 1) ELSE 0

\* \d+\.\d+\.\d+ tried at position i: the index of the last character matched,
\* 0 when there is no match at i.  A digit run is followed by "." only at its
\* end, so the greedy match is the only one.
MatchAt(s, i) ==
  LET a == DigitRun(s, i)
      dot1 == i + a
      b == DigitRun(s, dot1 + 1)
      dot2 == dot1 + 1 + b
      c == DigitRun(s, dot2 + 1)
  IN IF /\ a > 0
        /\ dot1 <= Len(s) /\ s[dot1] = "."
        /\ b > 0
        /\ dot2 <= Len(s) /\ s[dot2] = "."
        /\ c > 0
       THEN dot2 + c
       ELSE 0

\* /\d+\.\d+\.\d+/.exec(appCss): the leftmost match, <<>> for null
VersionExec(s) ==
  LET starts == {i \in 1..Len(s) : MatchAt(s, i) > 0}
  IN IF starts = {} THEN <<>>
     ELSE LET i == CHOOSE k \in starts : \A j \in starts : k <= j
          IN SubSeq(s, i, MatchAt(s, i))

\* Mutant: the check looks for the package version anywhere in app.css instead
\* of comparing the first version-like match with it.
shouldCopyAssets_Includes(dir) ==
  IF ~dir.exists THEN TRUE
  ELSE IF ~dir.readable THEN TRUE
  ELSE ~\E i \in 1..Len(dir.css) :
          /\ i + Len(pkgVersion) - 1 <= Len(dir.css)
          /\ SubSeq(dir.css, i, i + Len(pkgVersion) - 1) = pkgVersion

\* _shouldCopyAssets(assetsDir)
shouldCopyAssets(dir) ==
  IF ~dir.exists THEN TRUE
  ELSE IF ~dir.readable THEN TRUE        \* loadFile throws: the catch returns true
  ELSE LET appCssVersion == VersionExec(dir.css)
       IN IF appCssVersion = <<>> \/ appCssVersion # pkgVersion THEN TRUE ELSE FALSE

\* the assets directory after fs.copySync(distDir, assetsDir, ...) succeeded
Copied == [exists |-> TRUE, readable |-> TRUE, css |-> distCss]

\* copyAssets({ assetsDir }) that returns normally: the directory afterwards
copyAssets(dir) == IF shouldCopyAssets(dir) THEN Copied ELSE dir

\* copyAssets called on its own; fs.copySync may throw
CopyAssetsCall ==
  /\ ~ac.called
  /\ \E copyOk \in BOOLEAN :
       LET should == shouldCopyAssets(assets)
       IN /\ assets' = IF copyOk THEN copyAssets(assets) ELSE assets
          /\ ac' = [called |-> TRUE, should |-> should,
                    copied |-> should /\ copyOk, threw |-> should /\ ~copyOk,
                    before |-> assets]
  /\ UNCHANGED <<fs, now, inv, ro, sv>>

NoCall == [called |-> FALSE, should |-> FALSE, copied |-> FALSE, threw |-> FALSE,
           before |-> NoAssets]

CssChars == {"1", "2", ".", "x"}

RECURSIVE StringsUpTo(_)
StringsUpTo(n) ==
  IF n = 0 THEN {<<>>}
  ELSE LET shorter == StringsUpTo(n - 1)
       IN shorter \cup {Append(w, c) : w \in {v \in shorter : Len(v) = n - 1}, c \in CssChars}

\* every assets directory with an app.css of at most MaxCssLen characters
AssetDirs ==
  {NoAssets} \cup
  {[exists |-> TRUE, readable |-> r, css |-> IF r THEN w ELSE <<>>] :
     r \in BOOLEAN, w \in StringsUpTo(MaxCssLen)}

----------------------------------------------------------------------------
\* The persistence layer: saveFile, openFile.

Digit(k) == <<"0", "1", "2", "3", "4", "5", "6", "7", "8", "9">>[k + 1]

\* fsu's rendering of {_###} for the try number n >= 1: "_" and n padded with
\* zeros to three digits
PadNum(n) == <<"_", Digit((n \div 100) % 10), Digit((n \div 10) % 10), Digit(n % 10)>>

\* the name fsu.writeFileUnique tries at try number n for the pattern
\* filename.replace(fileExtRegex, '{_###}$&'): the plain name first, then the
\* name with the number before the extension.  (create only passes names that
\* end in .html or .json, so the pattern is always inserted.)
Candidate(filename, n) ==
  IF n = 0 THEN StripExt(filename) \o ExtOf(filename)
  ELSE StripExt(filename) \o PadNum(n) \o ExtOf(filename)

NoError == <<>>
IoError(filename) == <<"EIO">> \o filename
OpenerError(filename) == <<"EOPENER">> \o filename

\* the content of a file that was created and not yet written
Empty == <<>>
\* the content of a file that was there before the run
Old == <<"old">>

Put(files, name, content) ==
  [f \in DOMAIN files \cup {name} |-> IF f = name THEN content ELSE files[f]]

\* a slot of savePromises that holds the literal null
NullOp ==
  [st |-> "null", file |-> NoFile, data |-> Empty, tryNum |-> 0,
   saved |-> Null, err |-> NoError]

\* Mutant: saveFile takes the unique-name branch whatever the flag is.
saveFile_Unique(filename, data, overwrite) ==
  [st |-> "open", file |-> filename, data |-> data, tryNum |-> 0,
   saved |-> Null, err |-> NoError]

\* Mutant: saveFile takes the overwriting branch whatever the flag is.
saveFile_Overwrites(filename, data, overwrite) ==
  [st |-> "outputFile", file |-> filename, data |-> data, tryNum |-> 0,
   saved |-> Null, err |-> NoError]

\* saveFile(filename, data, overwrite) as it returns its promise: the write is
\* started, by fs.outputFile when overwrite is truthy and by
\* fsu.writeFileUnique otherwise
saveFile(filename, data, overwrite) ==
  [st |-> IF Truthy(overwrite) THEN "outputFile" ELSE "open",
   file |-> filename, data |-> data, tryNum |-> 0, saved |-> Null, err |-> NoError]

InFlight(op) == op.st \in {"outputFile", "open", "write"}

\* one step of the I/O behind a saveFile promise; ok says whether the system
\* call succeeds (an existing candidate is not a failure: fsu tries the next).
\* The result is the operation and the files after the step.
SaveStep(op, files, ok) ==
  CASE op.st = "outputFile" ->
         IF ok
           THEN [op |-> [op EXCEPT !.st = "saved", !.saved = op.file],
                 fs |-> Put(files, op.file, op.data)]
           ELSE [op |-> [op EXCEPT !.st = "rejected", !.err = IoError(op.file)],
                 fs |-> files]
    [] op.st = "open" ->
         LET name == Candidate(op.file, op.tryNum)
         IN IF ~ok
              THEN [op |-> [op EXCEPT !.st = "rejected", !.err = IoError(name)],
                    fs |-> files]
            ELSE IF name \in DOMAIN files
              THEN [op |-> [op EXCEPT !.tryNum = @ + 1], fs |-> files]
            ELSE [op |-> [op EXCEPT !.st = "write", !.saved = name],
                  fs |-> Put(files, name, Empty)]
    [] op.st = "write" ->
         IF ok
           THEN [op |-> [op EXCEPT !.st = "saved"],
                 fs |-> Put(files, op.saved, op.data)]
           ELSE [op |-> [op EXCEPT !.st = "rejected", !.err = IoError(op.saved)],
                 fs |-> files]

----------------------------------------------------------------------------
\* The orchestrator: prepare, create, createSync.

\* the rendered report and the pretty-printed JSON of the data
Html(data) == <<"html", data>>
Json(data) == <<"json", data>>

NoPromise == [st |-> "null", val |-> Null, err |-> NoError]
Pending == [st |-> "pending", val |-> Null, err |-> NoError]
NoResult == [st |-> "none", html |-> Null, json |-> Null, err |-> NoError]

NoOptions == MergedOptions(<<>>, NoFile, Undef, Undef, Undef, Undef, Undef)

Idle ==
  [pc |-> "idle", opts |-> NoOptions, data |-> "", html |-> NullOp,
   hp |-> NoPromise, json |-> NullOp, result |-> NoResult, opened |-> <<>>]

\* a saveFile promise as an element of savePromises
Elem(op) ==
  [st |-> CASE op.st = "null" -> "null"
            [] op.st = "saved" -> "fulfilled"
            [] op.st = "rejected" -> "rejected"
            [] OTHER -> "pending",
   val |-> op.saved, err |-> op.err]

\* Mutant: the aggregate settles with the first element to settle, as
\* Promise.race would, instead of waiting for both.
PromiseAll_Race(result, e1, e2) ==
  IF result.st # "pending" THEN result
  ELSE IF e1.st = "rejected" THEN [result EXCEPT !.st = "rejected", !.err = e1.err]
  ELSE IF e2.st = "rejected" THEN [result EXCEPT !.st = "rejected", !.err = e2.err]
  ELSE IF e1.st \in {"null", "fulfilled"} \/ e2.st \in {"null", "fulfilled"}
    THEN [result EXCEPT !.st = "resolved", !.html = e1.val, !.json = e2.val]
  ELSE result

\* Promise.all([e1, e2]) after one of its elements settled: it rejects with the
\* first rejection, and fulfils with both values once neither element is
\* pending (a null element counts as fulfilled with null)
PromiseAll(result, e1, e2) ==
  IF result.st # "pending" THEN result
  ELSE IF e1.st = "rejected" THEN [result EXCEPT !.st = "rejected", !.err = e1.err]
  ELSE IF e2.st = "rejected" THEN [result EXCEPT !.st = "rejected", !.err = e2.err]
  ELSE IF e1.st \in {"null", "fulfilled"} /\ e2.st \in {"null", "fulfilled"}
    THEN [result EXCEPT !.st = "resolved", !.html = e1.val, !.json = e2.val]
  ELSE result

\* prepare's asset handling: nothing in dev mode, the inline assets are read
\* when inlineAssets is set, and the assets are copied otherwise
PrepareCopies(dev, inlineAssets) == ~dev /\ ~inlineAssets

PrepareThrows(dev, inlineAssets, dir, copyOk) ==
  PrepareCopies(dev, inlineAssets) /\ shouldCopyAssets(dir) /\ ~copyOk

PrepareAssets(dev, inlineAssets, dir) ==
  IF PrepareCopies(dev, inlineAssets) THEN copyAssets(dir) ELSE dir

\* Mutant: the report is saved under the default name of the report directory,
\* whatever reportFilename is.
HtmlSave_DefaultName(reportOptions, data) ==
  IF reportOptions.saveHtml # JsFalse
    THEN saveFile(PathResolve(reportOptions.reportDir, <<"r", ".", "html">>),
                  Html(data), reportOptions.overwrite)
    ELSE NullOp

\* Mutant: the HTML save is skipped whenever saveHtml is falsy, not only when
\* it is false.
HtmlSave_Falsy(reportOptions, data) ==
  IF Truthy(reportOptions.saveHtml)
    THEN saveFile(reportOptions.htmlFile, Html(data), reportOptions.overwrite)
    ELSE NullOp

\* savePromises[0] before its .then: the HTML save, unless saveHtml is false
HtmlSave(reportOptions, data) ==
  IF reportOptions.saveHtml # JsFalse
    THEN saveFile(reportOptions.htmlFile, Html(data), reportOptions.overwrite)
    ELSE NullOp

\* Mutant: the JSON save is not started while an HTML save is there to wait for.
JsonSave_AfterHtml(reportOptions, data) ==
  IF Truthy(reportOptions.saveJson) /\ reportOptions.saveHtml = JsFalse
    THEN saveFile(reportOptions.jsonFile, Json(data), reportOptions.overwrite)
    ELSE NullOp

\* savePromises[1]: the JSON save when saveJson is truthy
JsonSave(reportOptions, data) ==
  IF Truthy(reportOptions.saveJson)
    THEN saveFile(reportOptions.jsonFile, Json(data), reportOptions.overwrite)
    ELSE NullOp

\* create(data, opts), to the return of its promise.  inputs are the merged
\* options and datas the data the call may be made with; the clock may advance
\* between the two getFilename calls of getOptions.
Create(i, inputs, datas) ==
  /\ inv[i].pc = "idle"
  /\ \E merged \in inputs, data \in datas, dev \in BOOLEAN,
        inlineAssets \in BOOLEAN, copyOk \in BOOLEAN :
     \E d \in TicksBetween(merged) :
       /\ now + d <= MaxNow
       /\ now' = now + d
       /\ IF PrepareThrows(dev, inlineAssets, assets, copyOk)
            THEN /\ inv' = [inv EXCEPT ![i].pc = "threw"]
                 /\ UNCHANGED assets
            ELSE LET reportOptions == getOptions(merged, now, now + d)
                     html == HtmlSave(reportOptions, data)
                     hp == IF html.st = "null" THEN NoPromise ELSE Pending
                     json == JsonSave(reportOptions, data)
                 IN /\ assets' = PrepareAssets(dev, inlineAssets, assets)
                    /\ inv' = [inv EXCEPT ![i] =
                         [pc |-> "created", opts |-> reportOptions, data |-> data,
                          html |-> html, hp |-> hp, json |-> json,
                          result |-> PromiseAll([NoResult EXCEPT !.st = "pending"],
                                                hp, Elem(json)),
                          opened |-> <<>>]]
  /\ UNCHANGED <<fs, ro, sv, ac>>

\* Mutant: the report is opened whether autoOpen is set or not.
OnSavedHtml_AlwaysOpens(reportOptions, savedHtml) ==
  [st |-> "opening", val |-> savedHtml, err |-> NoError]

\* the callback savedHtml => (autoOpen && openFile(savedHtml)) || savedHtml as
\* the promise the .then returns: with autoOpen truthy the opener is invoked on
\* savedHtml and openFile's promise is adopted, otherwise savedHtml is the value
OnSavedHtml(reportOptions, savedHtml) ==
  IF Truthy(reportOptions.autoOpen)
    THEN [st |-> "opening", val |-> savedHtml, err |-> NoError]
    ELSE [st |-> "fulfilled", val |-> savedHtml, err |-> NoError]

\* Mutant: the synchronous write looks for a free name when the file exists.
outputFileSync_Unique(files, filename, data) ==
  LET free == {n \in 0..Cardinality(DOMAIN files) :
                 Candidate(filename, n) \notin DOMAIN files}
      n == CHOOSE k \in free : \A j \in free : k <= j
  IN Put(files, Candidate(filename, n), data)

\* fs.outputFileSync(filename, data): the file is written, whether it exists or not
outputFileSync(files, filename, data) == Put(files, filename, data)

\* one step of the I/O of the HTML save
HtmlSaveStep(i) ==
  /\ InFlight(inv[i].html)
  /\ \E ok \in BOOLEAN :
       LET r == SaveStep(inv[i].html, fs, ok)
       IN /\ fs' = r.fs
          /\ inv' = [inv EXCEPT ![i].html = r.op]
  /\ UNCHANGED <<assets, now, ro, sv, ac>>

\* the reaction of .then(savedHtml => ...) once the HTML save settled: a
\* rejection passes through, a fulfilment runs the callback
HtmlThen(i) ==
  /\ inv[i].hp.st = "pending"
  /\ inv[i].html.st \in {"saved", "rejected"}
  /\ LET savedHtml == inv[i].html.saved
         hp == IF inv[i].html.st = "rejected"
                 THEN [st |-> "rejected", val |-> Null, err |-> inv[i].html.err]
               ELSE OnSavedHtml(inv[i].opts, savedHtml)
     IN inv' = [inv EXCEPT
          ![i].hp = hp,
          ![i].opened = IF hp.st = "opening" THEN Append(@, hp.val) ELSE @,
          ![i].result = PromiseAll(@, hp, Elem(inv[i].json))]
  /\ UNCHANGED <<fs, assets, now, ro, sv, ac>>

\* the opener's callback: openFile resolves with the filename when err is null
\* and rejects with err otherwise
OpenerCallback(i) ==
  /\ inv[i].hp.st = "opening"
  /\ \E ok \in BOOLEAN :
       LET hp == IF ok THEN [inv[i].hp EXCEPT !.st = "fulfilled"]
                 ELSE [st |-> "rejected", val |-> Null,
                       err |-> OpenerError(inv[i].hp.val)]
       IN inv' = [inv EXCEPT
            ![i].hp = hp,
            ![i].result = PromiseAll(@, hp, Elem(inv[i].json))]
  /\ UNCHANGED <<fs, assets, now, ro, sv, ac>>

\* one step of the I/O of the JSON save
JsonSaveStep(i) ==
  /\ InFlight(inv[i].json)
  /\ \E ok \in BOOLEAN :
       LET r == SaveStep(inv[i].json, fs, ok)
       IN /\ fs' = r.fs
          /\ inv' = [inv EXCEPT
               ![i].json = r.op,
               ![i].result = PromiseAll(@, inv[i].hp, Elem(r.op))]
  /\ UNCHANGED <<assets, now, ro, sv, ac>>

\* createSync(data, opts): prepare, fs.outputFileSync(htmlFile, html), then the
\* opener when autoOpen is truthy
CreateSync(i, inputs, datas) ==
  /\ inv[i].pc = "idle"
  /\ \E merged \in inputs, data \in datas, dev \in BOOLEAN,
        inlineAssets \in BOOLEAN, copyOk \in BOOLEAN, writeOk \in BOOLEAN :
     \E d \in TicksBetween(merged) :
       /\ now + d <= MaxNow
       /\ now' = now + d
       /\ IF PrepareThrows(dev, inlineAssets, assets, copyOk)
            THEN /\ inv' = [inv EXCEPT ![i].pc = "threw"]
                 /\ UNCHANGED <<assets, fs>>
            ELSE LET reportOptions == getOptions(merged, now, now + d)
                 IN /\ assets' = PrepareAssets(dev, inlineAssets, assets)
                    /\ fs' = IF writeOk
                               THEN outputFileSync(fs, reportOptions.htmlFile, Html(data))
                               ELSE fs
                    /\ inv' = [inv EXCEPT ![i] =
                         [Idle EXCEPT
                            !.pc = IF writeOk THEN "syncDone" ELSE "threw",
                            !.opts = reportOptions,
                            !.data = data,
                            !.opened = IF writeOk /\ Truthy(reportOptions.autoOpen)
                                         THEN <<reportOptions.htmlFile>>
                                         ELSE <<>>]]
  /\ UNCHANGED <<ro, sv, ac>>

----------------------------------------------------------------------------
\* Callers.

\* getOptions called on its own
GetOptionsCall(inputs) ==
  /\ ro = NoOptions
  /\ \E merged \in inputs :
     \E d \in TicksBetween(merged) :
       /\ now + d <= MaxNow
       /\ now' = now + d
       /\ ro' = getOptions(merged, now, now + d)
  /\ UNCHANGED <<fs, assets, inv, sv, ac>>

NoSave == [file |-> NoFile, op |-> NullOp, calls |-> 0, log |-> <<>>]

\* a caller starts the next saveFile(file, data, false) once the last one settled
SaveCall ==
  /\ sv.file # NoFile
  /\ ~InFlight(sv.op)
  /\ sv.calls < MaxCalls
  /\ \E data \in {"d1", "d2"} :
       sv' = [sv EXCEPT !.op = saveFile(sv.file, Html(data), JsFalse),
                        !.calls = @ + 1,
                        !.log = Append(@, [before |-> fs, ret |-> Null, data |-> data,
                                           settled |-> FALSE])]
  /\ UNCHANGED <<fs, assets, now, inv, ro, ac>>

\* one step of the I/O of the caller's saveFile; the promise's outcome is logged
\* when it settles (ret stays null for a rejection)
SaveFileStep ==
  /\ InFlight(sv.op)
  /\ \E ok \in BOOLEAN :
       LET r == SaveStep(sv.op, fs, ok)
           k == Len(sv.log)
       IN /\ fs' = r.fs
          /\ sv' = [sv EXCEPT
               !.op = r.op,
               !.log[k].ret = IF r.op.st = "saved" THEN r.op.saved ELSE @,
               !.log[k].settled = ~InFlight(r.op)]
  /\ UNCHANGED <<assets, now, inv, ro, ac>>

----------------------------------------------------------------------------
\* Inputs and initial states.

ReportDir == <<"out/">>
ReportName == <<"r">>
HtmlName == PathResolve(ReportDir, ReportName) \o <<".", "html">>
JsonName == PathResolve(ReportDir, ReportName) \o <<".", "json">>

\* the report directories a run may start in: any of these files may exist
FilesOver(names) ==
  UNION {[S -> {Old}] : S \in SUBSET names}

\* the merged options of a single create or createSync
Inputs ==
  {MergedOptions(ReportDir, ReportName, ts, sj, sh, ao, ow) :
     ts \in {JsFalse, JsTrue},
     sj \in {JsTrue, JsFalse, Undef, Str("yes")},
     sh \in {JsTrue, JsFalse, Undef},
     ao \in {JsTrue, JsFalse}, ow \in {JsTrue, JsFalse}}

\* the merged options of two concurrent calls of create
ConcInputs ==
  {MergedOptions(ReportDir, name, JsFalse, sj, JsTrue, JsFalse, ow) :
     name \in {ReportName, ReportName \o PadNum(1)},
     sj \in {JsTrue, JsFalse}, ow \in {JsTrue, JsFalse}}

\* the data the i-th concurrent call reports
DataOf(i) == <<"d1", "d2">>[i]

\* the merged options getOptions is called with on its own
OptionInputs ==
  {MergedOptions(dir, name, ts, sj, JsTrue, JsFalse, JsTrue) :
     dir \in {ReportDir, <<"/abs/">>},
     name \in {NoFile, ReportName, ReportName \o <<".", "html">>,
               ReportName \o <<".", "x", ".", "html">>},
     ts \in {JsFalse, Str("false"), JsTrue, Str("true"), Str(""), Undef,
             Str("longDate"), Str("shortDate")},
     sj \in {JsTrue, JsFalse, Undef, Str("yes")}}

Stale == [exists |-> TRUE, readable |-> TRUE, css |-> <<"1", ".", "2", ".", "2">>]

InitCommon ==
  /\ now = 0
  /\ ro = NoOptions
  /\ sv = NoSave
  /\ ac = NoCall

CreateCall == \E i \in DOMAIN inv : Create(i, Inputs, {"d1"})
CreateSyncCall == \E i \in DOMAIN inv : CreateSync(i, Inputs, {"d1"})
HtmlSave_Step == \E i \in DOMAIN inv : HtmlSaveStep(i)
HtmlSave_Then == \E i \in DOMAIN inv : HtmlThen(i)
Opener_Callback == \E i \in DOMAIN inv : OpenerCallback(i)
JsonSave_Step == \E i \in DOMAIN inv : JsonSaveStep(i)

\* one call of create or createSync
Init ==
  /\ InitCommon
  /\ fs \in FilesOver({HtmlName, Candidate(HtmlName, 1), JsonName})
  /\ assets \in {Stale, Copied}
  /\ inv = [i \in {1} |-> Idle]

Next ==
  \/ CreateCall
  \/ CreateSyncCall
  \/ HtmlSave_Step
  \/ HtmlSave_Then
  \/ Opener_Callback
  \/ JsonSave_Step

Spec == Init /\ [][Next]_vars

\* the event loop runs every callback that is due, and every system call that
\* was issued completes or fails
FairSpec ==
  /\ Spec
  /\ WF_vars(HtmlSave_Step)
  /\ WF_vars(HtmlSave_Then)
  /\ WF_vars(Opener_Callback)
  /\ WF_vars(JsonSave_Step)

ConcCreateCall == \E i \in DOMAIN inv : Create(i, ConcInputs, {DataOf(i)})

\* two concurrent calls of create
InitConc ==
  /\ InitCommon
  /\ fs \in FilesOver({HtmlName})
  /\ assets = Copied
  /\ inv = [i \in {1, 2} |-> Idle]

NextConc ==
  \/ ConcCreateCall
  \/ HtmlSave_Step
  \/ HtmlSave_Then
  \/ JsonSave_Step

SpecConc == InitConc /\ [][NextConc]_vars

OptionsCall == GetOptionsCall(OptionInputs)

\* option resolution alone, with a ticking clock
InitOptions ==
  /\ now = 0
  /\ ro = NoOptions
  /\ sv = NoSave
  /\ ac = NoCall
  /\ fs = <<>>
  /\ assets = NoAssets
  /\ inv = <<>>

NextOptions == OptionsCall \/ Tick

SpecOptions == InitOptions /\ [][NextOptions]_vars

\* saveFile(file, data, false) called again and again on one name
InitSave ==
  /\ now = 0
  /\ ro = NoOptions
  /\ ac = NoCall
  /\ assets = NoAssets
  /\ inv = <<>>
  /\ fs \in FilesOver({HtmlName, Candidate(HtmlName, 1), Candidate(HtmlName, 2)})
  /\ sv = [NoSave EXCEPT !.file = HtmlName]

NextSave == SaveCall \/ SaveFileStep

SpecSave == InitSave /\ [][NextSave]_vars

\* the asset check on every assets directory
InitAssets ==
  /\ InitCommon
  /\ fs = <<>>
  /\ inv = <<>>
  /\ assets \in AssetDirs

NextAssets == CopyAssetsCall

SpecAssets == InitAssets /\ [][NextAssets]_vars

----------------------------------------------------------------------------
\* The claims.

\* C1: when create resolves, it resolves with [htmlResult, jsonResult];
\* htmlResult is null exactly when saveHtml is false and is otherwise the name
\* of the file that holds the rendered report; jsonResult is null exactly when
\* saveJson is falsy and is otherwise the name of the file that holds the JSON.
C1_CreateResult ==
  \A i \in DOMAIN inv :
    inv[i].result.st = "resolved" =>
      LET r == inv[i].result
          o == inv[i].opts
      IN /\ (r.html = Null) <=> (o.saveHtml = JsFalse)
         /\ r.html # Null =>
              r.html \in DOMAIN fs /\ fs[r.html] = Html(inv[i].data)
         /\ (r.json = Null) <=> ~Truthy(o.saveJson)
         /\ r.json # Null =>
              r.json \in DOMAIN fs /\ fs[r.json] = Json(inv[i].data)

\* create({saveJson: true, saveHtml: false}) resolved with [null, jsonFilename]
C1_Witness ==
  \E i \in DOMAIN inv :
    /\ inv[i].result.st = "resolved"
    /\ inv[i].opts.saveHtml = JsFalse
    /\ inv[i].opts.saveJson = JsTrue
    /\ inv[i].result.html = Null
    /\ inv[i].result.json # Null

\* C4 (as claimed): with saveJson truthy, jsonFile without ".json" equals
\* htmlFile without ".html", for every timestamp option.
C4_SameBase ==
  (ro # NoOptions /\ Truthy(ro.saveJson)) =>
    StripExt(ro.jsonFile) = StripExt(ro.htmlFile)

\* w reads digits "." digits "." digits
IsVersion(w) ==
  \E p, q \in 1..Len(w) :
    /\ 1 < p /\ p + 1 < q /\ q < Len(w)
    /\ w[p] = "." /\ w[q] = "."
    /\ \A k \in (1..Len(w)) \ {p, q} : IsDigit(w[k])

\* the places <<i, j>> where css holds a version
Versions(css) ==
  {m \in (1..Len(css)) \X (1..Len(css)) :
     m[1] <= m[2] /\ IsVersion(SubSeq(css, m[1], m[2]))}

\* the assets in dir are current: app.css can be read and the first version in
\* it (the leftmost, at its longest) is the package version
AssetsCurrent(dir) ==
  /\ dir.exists
  /\ dir.readable
  /\ \E m \in Versions(dir.css) :
       /\ \A n \in Versions(dir.css) :
            m[1] < n[1] \/ (m[1] = n[1] /\ m[2] >= n[2])
       /\ SubSeq(dir.css, m[1], m[2]) = pkgVersion

\* C7: _shouldCopyAssets returns false exactly when the assets directory
\* exists, app.css is readable and the first version pattern in it equals the
\* package version; copyAssets copies exactly when it returns true, and leaves
\* the directory alone otherwise.
C7_ShouldCopyAssets ==
  ac.called =>
    /\ ~ac.should <=> AssetsCurrent(ac.before)
    /\ (ac.copied \/ ac.threw) <=> ac.should
    /\ ac.copied => assets = Copied
    /\ ~ac.copied => assets = ac.before

\* the check found the package version after other text and skipped the copy
C7_Witness ==
  /\ ac.called
  /\ ~ac.should
  /\ ~ac.copied
  /\ ac.before.css # pkgVersion

\* the calls of the sequential caller that resolved
Returned(k) == k \in 1..Len(sv.log) /\ sv.log[k].settled /\ sv.log[k].ret # Null

\* what every saveFile(file, data, false) call does: the files that existed
\* before it are all still there with their content, and a call that resolved
\* returned the first of file, file_001, file_002, ... that did not exist, which
\* holds the call's data; two successive calls return distinct names
C2_UniqueSave ==
  \A k \in 1..Len(sv.log) :
    /\ \A f \in DOMAIN sv.log[k].before :
         f \in DOMAIN fs /\ fs[f] = sv.log[k].before[f]
    /\ Returned(k) =>
         /\ sv.log[k].ret \notin DOMAIN sv.log[k].before
         /\ fs[sv.log[k].ret] = Html(sv.log[k].data)
         /\ \E n \in 0..Cardinality(DOMAIN sv.log[k].before) :
              /\ sv.log[k].ret = Candidate(sv.file, n)
              /\ \A m \in 0..(n - 1) :
                   Candidate(sv.file, m) \in DOMAIN sv.log[k].before
    /\ (Returned(k) /\ Returned(k + 1)) => sv.log[k].ret # sv.log[k + 1].ret

\* C2 (as claimed): ... and when file is free at the start of two successive
\* calls, the second returns the _001 name.
C2_Original ==
  /\ C2_UniqueSave
  /\ \A k \in 1..Len(sv.log) :
       (/\ Returned(k) /\ Returned(k + 1)
        /\ sv.file \notin DOMAIN sv.log[k].before)
         => sv.log[k + 1].ret = Candidate(sv.file, 1)

\* C2 (amended): with overwrite false no saveFile call deletes or changes a
\* file that existed before it; each call writes to and returns the first of
\* file, file_001, file_002, ... that does not exist; two successive calls
\* return distinct names; and when file and file_001 are both free at the
\* start, the second call returns the _001 name.
C2_Amended ==
  /\ C2_UniqueSave
  /\ \A k \in 1..Len(sv.log) :
       (/\ Returned(k) /\ Returned(k + 1)
        /\ sv.file \notin DOMAIN sv.log[k].before
        /\ Candidate(sv.file, 1) \notin DOMAIN sv.log[k].before)
         => sv.log[k + 1].ret = Candidate(sv.file, 1)

\* two calls in a row: the first took the plain name, the second the _001 name,
\* and the first file still holds the first call's data
C2_Witness ==
  /\ Returned(1) /\ Returned(2)
  /\ sv.log[1].ret = sv.file
  /\ sv.log[2].ret = Candidate(sv.file, 1)
  /\ sv.log[1].data # sv.log[2].data
  /\ fs[sv.file] = Html(sv.log[1].data)

\* the calls of create that returned their promise
Created == {i \in DOMAIN inv : inv[i].pc = "created"}

\* both elements of savePromises settled
Settled(i) ==
  /\ ~InFlight(inv[i].html)
  /\ inv[i].hp.st \in {"null", "fulfilled", "rejected"}
  /\ ~InFlight(inv[i].json)

\* the errors of the elements of savePromises that rejected
RejectionErrors(i) ==
  (IF inv[i].hp.st = "rejected" THEN {inv[i].hp.err} ELSE {})
    \cup (IF inv[i].json.st = "rejected" THEN {inv[i].json.err} ELSE {})

\* C3 (as claimed): create's promise resolves only once both operations
\* settled, and a save that rejected has made it reject with that save's error.
C3_Original ==
  \A i \in Created :
    /\ inv[i].result.st = "resolved" => Settled(i)
    /\ (inv[i].html.st = "rejected" /\ inv[i].hp.st # "pending") =>
         inv[i].result.st = "rejected" /\ inv[i].result.err = inv[i].html.err
    /\ inv[i].json.st = "rejected" =>
         inv[i].result.st = "rejected" /\ inv[i].result.err = inv[i].json.err

C3_State ==
  \A i \in Created :
    /\ inv[i].result.st = "resolved" => Settled(i) /\ RejectionErrors(i) = {}
    /\ RejectionErrors(i) # {} =>
         inv[i].result.st = "rejected" /\ inv[i].result.err \in RejectionErrors(i)

C3_Step ==
  \A i \in Created :
    inv[i].result.st \in {"resolved", "rejected"} => inv'[i].result = inv[i].result

\* C3 (amended): create's promise resolves only once both operations settled,
\* neither rejected; once an operation (a save or the open) rejects, the promise
\* is rejected with the error of the first operation that rejected, and it never
\* changes afterwards.
C3_Amended == []C3_State /\ [][C3_Step]_vars

\* both saves rejected, and create rejected with the JSON save's error, not the
\* HTML save's
C3_Witness ==
  \E i \in Created :
    /\ inv[i].html.st = "rejected"
    /\ inv[i].hp.st = "rejected"
    /\ inv[i].json.st = "rejected"
    /\ inv[i].result.st = "rejected"
    /\ inv[i].result.err = inv[i].json.err
    /\ inv[i].result.err # inv[i].html.err

\* the two saves of create(i) with the names option resolution gave them
Saves(i) ==
  {[op |-> inv[i].html, name |-> inv[i].opts.htmlFile, res |-> inv[i].result.html],
   [op |-> inv[i].json, name |-> inv[i].opts.jsonFile, res |-> inv[i].result.json]}

\* C5 (as claimed): the file a save writes and returns is the name getOptions
\* computed, with overwrite true or false.
C5_Original ==
  \A i \in Created : \A s \in Saves(i) :
    /\ s.op.saved # Null => s.op.saved = s.name
    /\ (inv[i].result.st = "resolved" /\ s.res # Null) => s.res = s.name

\* C5 (amended): with overwrite truthy the file written and returned is exactly
\* the name getOptions computed; with overwrite falsy it is the first of name,
\* name_001, name_002, ... that did not exist when the save ran, so the
\* resolved name only when no file of that name was there.
C5_Amended ==
  \A i \in Created : \A s \in Saves(i) :
    /\ s.op.saved # Null =>
         IF Truthy(inv[i].opts.overwrite)
           THEN s.op.saved = s.name
           ELSE \E n \in 0..Cardinality(DOMAIN fs) :
                  /\ s.op.saved = Candidate(s.name, n)
                  /\ \A m \in 0..(n - 1) : Candidate(s.name, m) \in DOMAIN fs
    /\ (inv[i].result.st = "resolved" /\ s.res # Null) => s.res = s.op.saved

\* create resolved with report_001.html although htmlFile is report.html
C5_Witness ==
  \E i \in Created :
    /\ inv[i].result.st = "resolved"
    /\ inv[i].opts.overwrite = JsFalse
    /\ inv[i].result.html = Candidate(inv[i].opts.htmlFile, 1)
    /\ fs[inv[i].result.html] = Html(inv[i].data)

\* C9: in create the opener is invoked at most once, only with autoOpen truthy
\* and saveHtml not false, only after the HTML save succeeded, on the file the
\* save wrote; never when the save was skipped or rejected; and when the open
\* succeeds that name is the first element of the result.
C9_Opener ==
  \A i \in Created :
    /\ Len(inv[i].opened) <= 1
    /\ inv[i].opened # <<>> =>
         /\ Truthy(inv[i].opts.autoOpen)
         /\ inv[i].opts.saveHtml # JsFalse
         /\ inv[i].html.st = "saved"
         /\ inv[i].opened[1] \in DOMAIN fs
         /\ fs[inv[i].opened[1]] = Html(inv[i].data)
         /\ inv[i].hp.st = "fulfilled" => inv[i].hp.val = inv[i].opened[1]
         /\ inv[i].result.st = "resolved" => inv[i].result.html = inv[i].opened[1]
    /\ inv[i].html.st \in {"null", "rejected"} => inv[i].opened = <<>>

\* the opener was invoked on the uniquified name and create resolved with it
C9_Witness ==
  \E i \in Created :
    /\ inv[i].opened = <<Candidate(inv[i].opts.htmlFile, 1)>>
    /\ inv[i].result.st = "resolved"
    /\ inv[i].result.html = inv[i].opened[1]

C10_State ==
  \A i \in Created :
    /\ inv[i].opts.saveHtml # JsFalse => inv[i].html.st # "null"
    /\ Truthy(inv[i].opts.saveJson) => inv[i].json.st # "null"
    /\ InFlight(inv[i].html) => ENABLED HtmlSaveStep(i)
    /\ InFlight(inv[i].json) => ENABLED JsonSaveStep(i)
    /\ (inv[i].hp.st = "pending" /\ ~InFlight(inv[i].html)) => ENABLED HtmlThen(i)
    /\ inv[i].hp.st = "opening" => ENABLED OpenerCallback(i)
    /\ inv[i].html.st = "saved" => fs[inv[i].html.saved] = Html(inv[i].data)
    /\ inv[i].json.st = "saved" => fs[inv[i].json.saved] = Json(inv[i].data)

\* C10: both saves are started when create returns; whatever happened to the
\* other one, a save in flight can take its next step, the .then reaction and
\* the opener's callback can run, and what a save wrote stays written; so each
\* save that was started runs to completion or failure, and so does the HTML
\* element of savePromises (the save, then the open).
C10_NoCancel ==
  /\ []C10_State
  /\ \A i \in {1} :
       /\ InFlight(inv[i].html) ~> ~InFlight(inv[i].html)
       /\ InFlight(inv[i].json) ~> ~InFlight(inv[i].json)
       /\ inv[i].hp.st \in {"pending", "opening"}
            ~> inv[i].hp.st \in {"fulfilled", "rejected"}

\* create rejected because the JSON save failed, and the report was written
\* and opened all the same
C10_Witness ==
  \E i \in Created :
    /\ inv[i].result.st = "rejected"
    /\ inv[i].result.err = inv[i].json.err
    /\ inv[i].json.st = "rejected"
    /\ inv[i].hp.st = "fulfilled"
    /\ inv[i].opened # <<>>
    /\ fs[inv[i].html.saved] = Html(inv[i].data)

C6_Step ==
  \A i \in DOMAIN inv :
    (inv[i].pc = "idle" /\ inv'[i].pc = "syncDone") =>
      LET htmlFile == inv'[i].opts.htmlFile
      IN /\ DOMAIN fs' = DOMAIN fs \cup {htmlFile}
         /\ fs'[htmlFile] = Html(inv'[i].data)
         /\ \A f \in DOMAIN fs \ {htmlFile} : fs'[f] = fs[f]
         /\ inv'[i].opened =
              IF Truthy(inv'[i].opts.autoOpen) THEN <<htmlFile>> ELSE <<>>

\* C6: whatever overwrite, saveJson and saveHtml are, a createSync that returns
\* has written the report to htmlFile, replacing a file of that name, has
\* created or changed no other file (no JSON, no _NNN name), and has invoked
\* the opener on htmlFile exactly when autoOpen is truthy.
C6_CreateSync == [][C6_Step]_vars

\* createSync returned with overwrite false, saveHtml false and saveJson true:
\* the report is at htmlFile, there is no _001 file and no JSON file
C6_Witness ==
  \E i \in DOMAIN inv :
    /\ inv[i].pc = "syncDone"
    /\ inv[i].opts.overwrite = JsFalse
    /\ inv[i].opts.saveHtml = JsFalse
    /\ inv[i].opts.saveJson = JsTrue
    /\ fs[inv[i].opts.htmlFile] = Html(inv[i].data)
    /\ Candidate(inv[i].opts.htmlFile, 1) \notin DOMAIN fs
    /\ inv[i].opts.jsonFile \notin DOMAIN fs
    /\ inv[i].opened = <<inv[i].opts.htmlFile>>

\* the names call i may write: its htmlFile and jsonFile and, with overwrite
\* falsy, their _NNN variants
Targets(i) ==
  LET o == inv[i].opts
      names == (IF o.saveHtml # JsFalse THEN {o.htmlFile} ELSE {})
                 \cup (IF Truthy(o.saveJson) THEN {o.jsonFile} ELSE {})
  IN IF Truthy(o.overwrite) THEN names
     ELSE {Candidate(f, n) : f \in names, n \in 0..MaxTries}

\* calls i and j have distinct output paths
DistinctPaths(i, j) ==
  /\ inv[i].opts.htmlFile # inv[j].opts.htmlFile
  /\ (Truthy(inv[i].opts.saveJson) /\ Truthy(inv[j].opts.saveJson)) =>
       inv[i].opts.jsonFile # inv[j].opts.jsonFile

\* the files call i saved hold what call i wrote, and call i resolved with
\* their names
OwnFiles(i) ==
  /\ inv[i].html.st = "saved" => fs[inv[i].html.saved] = Html(inv[i].data)
  /\ inv[i].json.st = "saved" => fs[inv[i].json.saved] = Json(inv[i].data)
  /\ inv[i].result.st = "resolved" =>
       /\ inv[i].html.st = "saved" /\ inv[i].result.html = inv[i].html.saved
       /\ inv[i].json.st # "null" =>
            inv[i].json.st = "saved" /\ inv[i].result.json = inv[i].json.saved

\* C8 (as claimed): two concurrent calls of create with distinct htmlFile and
\* distinct jsonFile each resolve with their own files, which hold what that
\* call wrote.
C8_Original ==
  \A i, j \in Created : (i # j /\ DistinctPaths(i, j)) => OwnFiles(i)

\* C8 (amended): two concurrent calls of create are safe when no name one of
\* them may write (htmlFile, jsonFile and, with overwrite falsy, their _NNN
\* variants) is a name the other may write: under every interleaving each
\* resolves with its own files, which hold what that call wrote.
C8_Amended ==
  \A i, j \in Created :
    (i # j /\ Targets(i) \cap Targets(j) = {}) => OwnFiles(i)

\* both calls resolved, one of them by the unique-name path, report and JSON
\* each, and the names they may write do not meet
C8_Witness ==
  \E i, j \in Created :
    /\ i # j
    /\ Targets(i) \cap Targets(j) = {}
    /\ inv[i].result.st = "resolved" /\ inv[j].result.st = "resolved"
    /\ inv[i].opts.overwrite = JsFalse
    /\ inv[i].result.json # Null /\ inv[j].result.json # Null

====
